---- MODULE Spec2Model ----
(***************************************************************************)
(* The analysis page of the Reddit intelligence frontend: the polling hook *)
(* useAnalysisJob, the page handlers that drive it (handleAnalyze, Retry,  *)
(* the fetch-on-complete effect), the HTTP requests in flight, and the Job *)
(* state machine of the backend those requests talk to.                    *)
(***************************************************************************)
EXTENDS Integers, Sequences, FiniteSets, Bags, TLC

(* ---------------------------------------------------------------- bounds *)
MaxJobs == 2        \* Jobs started in one run
MaxRaceJobs == 3    \* Jobs started in one run of SpecRace
MaxPolls == 2       \* status requests and responses in flight at once
MaxFetch == 1       \* fetchAllData calls in flight at once
MaxCandidates == 22 \* subreddits one discovery phase can find

(* ------------------------------------------------------------- constants *)
NULL == "null"      \* a null string-typed field (status, progress, error)
NoJob == 0          \* a null job id, interval handle or result

Domains == {"a.com"}
CompetitorLists == {<< >>, <<"c.com">>}

JobStatus == {"queued", "running", "complete", "failed"}
ProgressSteps ==
  <<"resolving_company", "discovering_subreddits", "fetching_sources",
    "llm_extraction", "persisting">>
Terminal == {"complete", "failed"}
Active == {"queued", "running"}

ServerErrors == {"LLM key missing", NULL}
ApiErrorMessage == "500 Internal Server Error"
PollFallback == "Failed to fetch job status"
StartFallback == "Failed to start analysis"
FailedFallback == "Analysis failed"

VARIABLES
  form,          \* AnalysisForm: [domain, competitors] as handleSubmit parses them
  jobId, status, progress, error, result, isLoading,   \* useAnalysisJob state
  pollRef,       \* useAnalysisJob: handle of the interval start() last created
  timers,        \* the intervals that are running, each named by the job it polls
  startReqs,     \* POST /api/analyze bodies in flight to the server
  startResps,    \* AnalyzeResponse messages in flight to the client
  pollReqs,      \* GET /api/jobs/{id} requests in flight to the server
  pollResps,     \* their responses (or failures) in flight to the client
  jobs,          \* the server's Jobs, job_id = index
  datasets,      \* page: have the five result datasets been loaded
  isLoadingData, \* page
  dataFetches,   \* fetchAllData calls in flight
  \* the backend's collection client and discovery phase
  credentials,   \* are Reddit OAuth credentials configured
  phase,         \* "idle", "discovering", "fetching" or "done"
  candidates,    \* number of subreddits discovered; rank i is the i-th best
  tried,         \* the strategies the current request has attempted, in order
  reqState,      \* "none", "running", "ok" or "error" (retryable fetch error)
  persisted,     \* the ranks that were stored
  fetchedFrom,   \* the ranks whose sources were requested
  \* the backend's scoring engine
  batch,         \* the discovery batch, in the order it was handed over
  stage,         \* "idle", "input", "scored" or "ranked"
  scored,        \* per batch entry: its normalized metrics and its score
  ranked,        \* the ranked output: names and scores, best first
  \* the backend's entity resolver
  entities,      \* the pool of Entities, in creation order
  mentions,      \* the mentions resolved so far, in processing order
  shown,         \* the confidences of the mention resolved last
  \* the backend's competitive analytics
  sourcesSeen,   \* the Sources aggregated so far
  counts,        \* per subreddit and target: mentions counted
  coMentions,    \* per reported pair of targets: Sources naming both
  overview,      \* the CompetitiveOverview last computed (share rows)
  \* useEntityDetail and the entity modal
  detailEntity,    \* entity: the id of the EntityDetail held, NoEntity = null
  detailIsLoading, \* isLoading
  detailError,     \* error
  detailCalls,     \* fetch() calls awaiting getEntityDetail: [seq, id]
  detailSeq,       \* number of fetch() calls made
  detailLatest,    \* what the most recent fetch() call has produced so far
  \* GraphView
  data,          \* the GraphData prop: [nodes, edges]
  positionedNodes, \* the memoized layout: [id, x, y] per node
  hoveredNode,   \* id of the hovered node, NoNode = null
  hoveredEdge,   \* index (from 1) of the hovered edge, NoEdge = null
  \* apiClient
  response,      \* the Response handleResponse was given
  settled        \* how the promise of get/post settled, or "pending"

hook == <<jobId, status, progress, error, result, isLoading>>
net == <<startReqs, startResps, pollReqs, pollResps>>
page == <<datasets, isLoadingData, dataFetches>>
collect ==
  <<credentials, phase, candidates, tried, reqState, persisted, fetchedFrom>>
scoring == <<batch, stage, scored, ranked>>
resolver == <<entities, mentions, shown>>
analytics == <<sourcesSeen, counts, coMentions, overview>>
backend == <<collect, scoring, resolver, analytics>>
detail ==
  <<detailEntity, detailIsLoading, detailError, detailCalls, detailSeq,
    detailLatest>>
graphView == <<data, positionedNodes, hoveredNode, hoveredEdge>>
api == <<response, settled>>
views == <<detail, graphView, api>>
frontend == <<form, hook, pollRef, timers, net, jobs, page, views>>
notCollect == <<frontend, scoring, resolver, analytics>>
notScoring == <<frontend, collect, resolver, analytics>>
notResolver == <<frontend, collect, scoring, analytics>>
notAnalytics == <<frontend, collect, scoring, resolver>>
vars == <<form, hook, pollRef, timers, net, jobs, page, backend, views>>

(* --------------------------------------------------------------- helpers *)
\* JavaScript's a || b on nullable strings: null and "" are falsy.
OrElse(a, b) == IF a = NULL \/ a = "" THEN b ELSE a

InFlightPolls == BagCardinality(pollReqs) + BagCardinality(pollResps)
Started == Len(jobs) + BagCardinality(startReqs)

\* stopPolling(): clearInterval(pollRef.current) when there is a handle.
stopPolling(ts) == IF pollRef # NoJob THEN ts \ {pollRef} ELSE ts

\* startAnalysis(domain, competitors = []): the body of POST /api/analyze.
startAnalysis(domain) == [domain |-> domain, competitors |-> << >>]

\* getJobStatus(id) answered by the server: the JobResponse for Job id.
JobResponse(id) ==
  [ok |-> TRUE, job_id |-> id, status |-> jobs[id].status,
   progress |-> jobs[id].progress, error |-> jobs[id].error,
   result |-> jobs[id].result]

\* get() rejecting: an ApiError (non-OK response) or a thrown network error.
\* The catch branch of poll turns either into the message it shows.
PollFailure(id, isApiError) ==
  [ok |-> FALSE, job_id |-> id, status |-> NULL, progress |-> NULL,
   error |-> IF isApiError THEN ApiErrorMessage ELSE PollFallback,
   result |-> NoJob]

NoData ==
  [subreddits |-> FALSE, entities |-> FALSE, relationships |-> FALSE,
   graphData |-> FALSE, competitiveOverview |-> FALSE]
AllData ==
  [subreddits |-> TRUE, entities |-> TRUE, relationships |-> TRUE,
   graphData |-> TRUE, competitiveOverview |-> TRUE]

\* JobStatus component: what it renders for the props the page hands it.
progressPercent(p) ==
  CASE p = "resolving_company" -> 10
    [] p = "discovering_subreddits" -> 25
    [] p = "fetching_sources" -> 50
    [] p = "llm_extraction" -> 75
    [] p = "persisting" -> 95

percent(st, p) ==
  IF p # NULL THEN progressPercent(p) ELSE IF st = "complete" THEN 100 ELSE 0

JobStatusShown == status \in Active \/ error # NULL
RetryShown == JobStatusShown /\ status = "failed"

\* The page's effect on [job.status]: fetchAllData() when it became complete.
becameComplete(newStatus) == newStatus = "complete" /\ status # "complete"

fetchOnComplete(newStatus) ==
  IF becameComplete(newStatus)
    THEN /\ dataFetches < MaxFetch
         /\ isLoadingData' = TRUE
         /\ dataFetches' = dataFetches + 1
         /\ UNCHANGED datasets
    ELSE UNCHANGED page

(* ------------------------------------------------------------------ Init *)
\* The backend components before any of their runs.
CollectIdle ==
  /\ credentials = FALSE /\ phase = "idle" /\ candidates = 0
  /\ tried = << >> /\ reqState = "none"
  /\ persisted = {} /\ fetchedFrom = {}

ScoringIdle ==
  batch = << >> /\ stage = "idle" /\ scored = << >> /\ ranked = << >>

NoShown == [llm_confidence |-> 0, confidence |-> 0, percent |-> 0]

ResolverIdle == entities = << >> /\ mentions = << >> /\ shown = NoShown

AnalyticsIdle ==
  /\ sourcesSeen = {} /\ counts = << >> /\ coMentions = << >>
  /\ overview = << >>

BackendIdle == CollectIdle /\ ScoringIdle /\ ResolverIdle /\ AnalyticsIdle

\* The page before any request.
PageInit ==
  /\ form = [domain |-> "", competitors |-> << >>]
  /\ jobId = NoJob /\ status = NULL /\ progress = NULL
  /\ error = NULL /\ result = NoJob /\ isLoading = FALSE
  /\ pollRef = NoJob /\ timers = {}
  /\ startReqs = EmptyBag /\ startResps = EmptyBag
  /\ pollReqs = EmptyBag /\ pollResps = EmptyBag
  /\ jobs = << >>
  /\ datasets = NoData /\ isLoadingData = FALSE /\ dataFetches = 0

NoEntity == 0
NoNode == 0
NoEdge == 0
\* What the latest fetch() call is owed: nothing before the first call and
\* after clear().
NoOutcome ==
  [entity |-> NoEntity, error |-> NULL, pending |-> FALSE, answered |-> FALSE]

DetailIdle ==
  /\ detailEntity = NoEntity /\ detailIsLoading = FALSE /\ detailError = NULL
  /\ detailCalls = {} /\ detailSeq = 0
  /\ detailLatest = NoOutcome

GraphIdle ==
  /\ data = [nodes |-> << >>, edges |-> << >>]
  /\ positionedNodes = << >>
  /\ hoveredNode = NoNode /\ hoveredEdge = NoEdge

\* A JSON value as handleResponse looks at it: undefined, a string or an array.
Undefined == [type |-> "undefined", text |-> ""]
NoBody == [json |-> FALSE, object |-> FALSE, detail |-> Undefined, message |-> Undefined]
NoResponse == [status |-> 0, statusText |-> "", body |-> NoBody]
Pending ==
  [method |-> "", kind |-> "pending", name |-> "", status |-> 0,
   message |-> "", value |-> NoBody]

ApiIdle == response = NoResponse /\ settled = Pending

ViewsIdle == DetailIdle /\ GraphIdle /\ ApiIdle

Init == PageInit /\ BackendIdle /\ ViewsIdle

(* ------------------------------------------------------- the form, start *)
\* AnalysisForm: typing into the (enabled) inputs.
EditForm(d, c) ==
  /\ ~isLoading
  /\ form' = [domain |-> d, competitors |-> c]
  /\ UNCHANGED <<backend, views, hook, pollRef, timers, net, jobs, page>>

\* A start() that deduplicates: no POST while the hook shows a completed Job.
SubmitReusesCompleted ==
  /\ ~isLoading
  /\ form.domain # ""
  /\ datasets' = NoData
  /\ timers' = stopPolling(timers)
  /\ pollRef' = NoJob
  /\ error' = NULL /\ result' = NoJob /\ progress' = NULL
  /\ isLoading' = TRUE
  /\ startReqs' = IF status = "complete" THEN startReqs
                  ELSE startReqs (+) SetToBag({startAnalysis(form.domain)})
  /\ UNCHANGED <<backend, views, form, jobId, status, startResps, pollReqs, pollResps, jobs,
                 isLoadingData, dataFetches>>

\* AnalysisForm.handleSubmit -> Home.handleAnalyze -> useAnalysisJob.start,
\* up to its await: the datasets are emptied, polling is stopped, the hook's
\* error, result and progress are cleared and the POST is sent.
Submit ==
  /\ ~isLoading
  /\ form.domain # ""
  /\ datasets' = NoData
  /\ timers' = stopPolling(timers)
  /\ pollRef' = NoJob
  /\ error' = NULL /\ result' = NoJob /\ progress' = NULL
  /\ isLoading' = TRUE
  /\ startReqs' = startReqs (+) SetToBag({startAnalysis(form.domain)})
  /\ UNCHANGED <<backend, views, form, jobId, status, startResps, pollReqs, pollResps, jobs,
                 isLoadingData, dataFetches>>

\* start() after its await returned: adopt the job, create the interval
\* (the previous handle is overwritten, not cleared) and poll once.
StartResolved(r) ==
  /\ BagIn(r, startResps)
  /\ InFlightPolls < MaxPolls
  /\ startResps' = startResps (-) SetToBag({r})
  /\ jobId' = r.job_id
  /\ status' = r.status
  /\ pollRef' = r.job_id
  /\ timers' = timers \cup {r.job_id}
  /\ pollReqs' = pollReqs (+) SetToBag({r.job_id})
  /\ fetchOnComplete(r.status)
  /\ UNCHANGED <<backend, views, form, progress, error, result, isLoading, startReqs,
                 pollResps, jobs>>

\* start()'s catch branch: the POST was rejected before a Job was created.
StartRejected(b, isApiError) ==
  /\ BagIn(b, startReqs)
  /\ startReqs' = startReqs (-) SetToBag({b})
  /\ error' = IF isApiError THEN ApiErrorMessage ELSE StartFallback
  /\ isLoading' = FALSE
  /\ UNCHANGED <<backend, views, form, jobId, status, progress, result, pollRef, timers,
                 startResps, pollReqs, pollResps, jobs, page>>

(* --------------------------------------------------------------- polling *)
\* The interval of job id fires: poll(id) sends GET /api/jobs/{id}.
Tick(id) ==
  /\ id \in timers
  /\ InFlightPolls < MaxPolls
  /\ pollReqs' = pollReqs (+) SetToBag({id})
  /\ UNCHANGED <<backend, views, form, hook, pollRef, timers, startReqs, startResps,
                 pollResps, jobs, page>>

\* poll() after getJobStatus resolved with r, and the page's effect.
PollResolved(r) ==
  /\ BagIn(r, pollResps)
  /\ r.ok
  /\ pollResps' = pollResps (-) SetToBag({r})
  /\ status' = r.status
  /\ progress' = r.progress
  /\ IF r.status = "complete"
       THEN /\ result' = r.result
            /\ isLoading' = FALSE
            /\ timers' = stopPolling(timers)
            /\ pollRef' = NoJob
            /\ UNCHANGED error
       ELSE IF r.status = "failed"
         THEN /\ error' = OrElse(r.error, FailedFallback)
              /\ isLoading' = FALSE
              /\ timers' = stopPolling(timers)
              /\ pollRef' = NoJob
              /\ UNCHANGED result
         ELSE UNCHANGED <<error, result, isLoading, timers, pollRef>>
  /\ fetchOnComplete(r.status)
  /\ UNCHANGED <<backend, views, form, jobId, startReqs, startResps, pollReqs, jobs>>

\* poll()'s catch branch.
PollRejected(r) ==
  /\ BagIn(r, pollResps)
  /\ ~r.ok
  /\ pollResps' = pollResps (-) SetToBag({r})
  /\ error' = r.error
  /\ isLoading' = FALSE
  /\ timers' = stopPolling(timers)
  /\ pollRef' = NoJob
  /\ UNCHANGED <<backend, views, form, jobId, status, progress, result, startReqs,
                 startResps, pollReqs, jobs, page>>

\* Retry in JobStatus: onRetry = job.reset.
reset ==
  /\ RetryShown
  /\ timers' = stopPolling(timers)
  /\ pollRef' = NoJob
  /\ jobId' = NoJob /\ status' = NULL /\ progress' = NULL
  /\ error' = NULL /\ result' = NoJob /\ isLoading' = FALSE
  /\ UNCHANGED <<backend, views, form, net, jobs, page>>

(* ------------------------------------------------------------ fetchAllData *)
\* Promise.all of the five GETs resolved: all five datasets are replaced.
FetchAllResolved ==
  /\ dataFetches > 0
  /\ dataFetches' = dataFetches - 1
  /\ datasets' = AllData
  /\ isLoadingData' = FALSE
  /\ UNCHANGED <<backend, views, form, hook, pollRef, timers, net, jobs>>

\* One of the five rejected: the catch logs, nothing is replaced.
\* A fetchAllData that keeps what the requests that succeeded returned.
FetchAllSettled ==
  /\ dataFetches > 0
  /\ dataFetches' = dataFetches - 1
  /\ isLoadingData' = FALSE
  /\ \E failed \in (SUBSET DOMAIN datasets) \ {{}} :
       datasets' = [k \in DOMAIN datasets |->
                      IF k \in failed THEN datasets[k] ELSE TRUE]
  /\ UNCHANGED <<backend, views, form, hook, pollRef, timers, net, jobs>>

FetchAllRejected ==
  /\ dataFetches > 0
  /\ dataFetches' = dataFetches - 1
  /\ isLoadingData' = FALSE
  /\ UNCHANGED <<backend, views, form, hook, pollRef, timers, net, jobs, datasets>>

(* ---------------------------------------------------------------- server *)
\* POST /api/analyze handled: a new Job in queued, answered with its id.
ServeStart(b) ==
  /\ BagIn(b, startReqs)
  /\ startReqs' = startReqs (-) SetToBag({b})
  /\ jobs' = Append(jobs,
       [domain |-> b.domain, competitors |-> b.competitors,
        status |-> "queued", progress |-> NULL, error |-> NULL,
        result |-> NoJob])
  /\ startResps' = startResps (+)
       SetToBag({[job_id |-> Len(jobs) + 1, status |-> "queued"]})
  /\ UNCHANGED <<backend, views, form, hook, pollRef, timers, pollReqs, pollResps, page>>

\* GET /api/jobs/{id} handled: a pure read of the Job.
ServePoll(id) ==
  /\ BagIn(id, pollReqs)
  /\ pollReqs' = pollReqs (-) SetToBag({id})
  /\ pollResps' = pollResps (+) SetToBag({JobResponse(id)})
  /\ UNCHANGED <<backend, views, form, hook, pollRef, timers, startReqs, startResps, jobs,
                 page>>

\* GET /api/jobs/{id} failed: a non-OK response or a network error.
FailPoll(id, isApiError) ==
  /\ BagIn(id, pollReqs)
  /\ pollReqs' = pollReqs (-) SetToBag({id})
  /\ pollResps' = pollResps (+) SetToBag({PollFailure(id, isApiError)})
  /\ UNCHANGED <<backend, views, form, hook, pollRef, timers, startReqs, startResps, jobs,
                 page>>

StepIndex(p) == CHOOSE k \in 1..Len(ProgressSteps) : ProgressSteps[k] = p

\* An orchestrator that completes a Job straight after llm_extraction.
advanceSkipsPersisting(j, i) ==
  IF j.status = "queued"
    THEN [j EXCEPT !.status = "running", !.progress = ProgressSteps[1]]
  ELSE IF StepIndex(j.progress) < Len(ProgressSteps) - 1
    THEN [j EXCEPT !.progress = ProgressSteps[StepIndex(j.progress) + 1]]
  ELSE [j EXCEPT !.status = "complete", !.result = i]

\* The next state of Job j (with id i) along the fixed sequence.
advance(j, i) ==
  IF j.status = "queued"
    THEN [j EXCEPT !.status = "running", !.progress = ProgressSteps[1]]
  ELSE IF StepIndex(j.progress) < Len(ProgressSteps)
    THEN [j EXCEPT !.progress = ProgressSteps[StepIndex(j.progress) + 1]]
  ELSE [j EXCEPT !.status = "complete", !.result = i]

\* The orchestrator moves Job i one step along the fixed sequence.
ServerStep(i) ==
  /\ i \in 1..Len(jobs)
  /\ jobs[i].status \in Active
  /\ jobs' = [jobs EXCEPT ![i] = advance(jobs[i], i)]
  /\ UNCHANGED <<backend, views, form, hook, pollRef, timers, net, page>>

\* An unrecoverable failure at the current step: the Job goes to failed.
ServerFail(i, e) ==
  /\ i \in 1..Len(jobs)
  /\ jobs[i].status = "running"
  /\ jobs' = [jobs EXCEPT ![i] = [@ EXCEPT !.status = "failed", !.error = e]]
  /\ UNCHANGED <<backend, views, form, hook, pollRef, timers, net, page>>

(* ------------------------------------------------------------------ Next *)
Next ==
  \/ \E d \in Domains \cup {""}, c \in CompetitorLists : EditForm(d, c)
  \/ Started < MaxJobs /\ Submit
  \/ \E r \in BagToSet(startResps) : StartResolved(r)
  \/ \E b \in BagToSet(startReqs), a \in BOOLEAN : StartRejected(b, a)
  \/ \E id \in timers : Tick(id)
  \/ \E r \in BagToSet(pollResps) : PollResolved(r)
  \/ \E r \in BagToSet(pollResps) : PollRejected(r)
  \/ reset
  \/ FetchAllResolved
  \/ FetchAllRejected
  \/ \E b \in BagToSet(startReqs) : ServeStart(b)
  \/ \E id \in BagToSet(pollReqs) : ServePoll(id)
  \/ \E id \in BagToSet(pollReqs), a \in BOOLEAN : FailPoll(id, a)
  \/ \E i \in 1..Len(jobs) : ServerStep(i)
  \/ \E i \in 1..Len(jobs), e \in ServerErrors : ServerFail(i, e)

Spec == Init /\ [][Next]_vars

\* The same page with one more Job and a quieter environment: no request is
\* rejected, the form is filled in once, and the server works on its newest
\* Job only and reports failures without a message.
NextRace ==
  \/ form.domain = "" /\ \E d \in Domains : EditForm(d, << >>)
  \/ Started < MaxRaceJobs /\ Submit
  \/ \E r \in BagToSet(startResps) : StartResolved(r)
  \/ \E id \in timers : Tick(id)
  \/ \E r \in BagToSet(pollResps) : PollResolved(r)
  \/ FetchAllResolved
  \/ \E b \in BagToSet(startReqs) : ServeStart(b)
  \/ \E id \in BagToSet(pollReqs) : ServePoll(id)
  \/ Len(jobs) > 0 /\ ServerStep(Len(jobs))
  \/ Len(jobs) > 0 /\ ServerFail(Len(jobs), NULL)

SpecRace == Init /\ [][NextRace]_vars

\* The page of SpecRace on a server that fails every Job it has started,
\* under the scheduling the runtime and the network give: every request is
\* answered, every answer is delivered, every running interval fires, and
\* every Job reaches a terminal status.
NextLive ==
  \/ form.domain = "" /\ \E d \in Domains : EditForm(d, << >>)
  \/ Started < MaxRaceJobs /\ Submit
  \/ \E r \in BagToSet(startResps) : StartResolved(r)
  \/ \E id \in timers : Tick(id)
  \/ \E r \in BagToSet(pollResps) : PollResolved(r)
  \/ \E b \in BagToSet(startReqs) : ServeStart(b)
  \/ \E id \in BagToSet(pollReqs) : ServePoll(id)
  \/ \E i \in 1..Len(jobs) : jobs[i].status = "queued" /\ ServerStep(i)
  \/ \E i \in 1..Len(jobs) : ServerFail(i, NULL)

SpecLive ==
  /\ Init
  /\ [][NextLive]_vars
  /\ WF_vars(\E b \in BagToSet(startReqs) : ServeStart(b))
  /\ WF_vars(\E r \in BagToSet(startResps) : StartResolved(r))
  /\ \A id \in 1..MaxRaceJobs :
       /\ WF_vars(Tick(id))
       /\ WF_vars(ServePoll(id))
       /\ WF_vars(\E r \in BagToSet(pollResps) :
                    r.job_id = id /\ PollResolved(r))
       /\ WF_vars(id <= Len(jobs) /\ jobs[id].status = "queued"
                    /\ ServerStep(id))
       /\ WF_vars(ServerFail(id, NULL))

(* ------------------------------------------- collection client, discovery *)
PersistTop == 20    \* "Top 20 subreddits are ranked and stored."
FetchTop == 5       \* "Sources are fetched from the top 5 subreddits"

Min(a, b) == IF a <= b THEN a ELSE b

\* A client that tries the HTTP API before the browser.
StrategyOrderApiFirst == <<"api", "scrape">>

\* The hybrid client: browser scraping is primary, the httpx API the fallback.
StrategyOrder == <<"scrape", "api">>

Attempt(strategy, outcome) == [strategy |-> strategy, outcome |-> outcome]

\* A new collection request makes its first attempt with the primary strategy.
beginRequest ==
  /\ reqState # "running"
  /\ tried' = <<Attempt(StrategyOrder[1], "running")>>
  /\ reqState' = "running"

\* The ranks the orchestrator stores: the best PersistTop of the ranked batch.
TopRanks(n, k) == 1..Min(n, k)

\* An orchestrator that fetches sources from every stored subreddit.
FetchTargetsAll == persisted

\* The ranks the fetch phase reads: the best FetchTop of the stored ones.
FetchTargets == {r \in persisted : r <= FetchTop}

InitDiscovery ==
  /\ PageInit /\ ViewsIdle /\ ScoringIdle /\ ResolverIdle /\ AnalyticsIdle
  /\ credentials \in BOOLEAN
  /\ phase = "discovering" /\ candidates = 0
  /\ tried = << >> /\ reqState = "none"
  /\ persisted = {} /\ fetchedFrom = {}

\* Discovery asks the collection client for one more candidate subreddit.
DiscoverRequest ==
  /\ phase = "discovering"
  /\ candidates < MaxCandidates
  /\ beginRequest
  /\ UNCHANGED <<notCollect, credentials, phase, candidates, persisted,
                 fetchedFrom>>

\* The running attempt returns data: the request is answered.
AttemptSucceeds ==
  /\ reqState = "running"
  /\ tried' = [tried EXCEPT ![Len(tried)].outcome = "ok"]
  /\ reqState' = "ok"
  /\ candidates' = IF phase = "discovering" THEN candidates + 1 ELSE candidates
  /\ UNCHANGED <<notCollect, credentials, phase, persisted, fetchedFrom>>

\* The running attempt fails or is rate-limited: the next strategy is tried,
\* and when none is left the caller gets a retryable fetch error.
AttemptFails ==
  /\ reqState = "running"
  /\ IF Len(tried) < Len(StrategyOrder)
       THEN /\ tried' = Append([tried EXCEPT ![Len(tried)].outcome = "failed"],
                               Attempt(StrategyOrder[Len(tried) + 1], "running"))
            /\ UNCHANGED reqState
       ELSE /\ tried' = [tried EXCEPT ![Len(tried)].outcome = "failed"]
            /\ reqState' = "error"
  /\ UNCHANGED <<notCollect, credentials, phase, candidates, persisted,
                 fetchedFrom>>

\* Discovery ends: the ranked batch is cut to the best PersistTop and stored.
RankAndPersist ==
  /\ phase = "discovering"
  /\ reqState # "running"
  /\ persisted' = TopRanks(candidates, PersistTop)
  /\ phase' = "fetching"
  /\ UNCHANGED <<notCollect, credentials, candidates, tried, reqState,
                 fetchedFrom>>

\* The fetch phase requests the sources of one of its target subreddits.
FetchRequest(r) ==
  /\ phase = "fetching"
  /\ r \in FetchTargets \ fetchedFrom
  /\ beginRequest
  /\ fetchedFrom' = fetchedFrom \cup {r}
  /\ UNCHANGED <<notCollect, credentials, phase, candidates, persisted>>

\* Every target was requested and answered: the fetch phase is over.
FinishFetch ==
  /\ phase = "fetching"
  /\ reqState # "running"
  /\ fetchedFrom = FetchTargets
  /\ phase' = "done"
  /\ UNCHANGED <<notCollect, credentials, candidates, tried, reqState,
                 persisted, fetchedFrom>>

NextDiscovery ==
  \/ DiscoverRequest
  \/ AttemptSucceeds
  \/ AttemptFails
  \/ RankAndPersist
  \/ \E r \in 1..MaxCandidates : FetchRequest(r)
  \/ FinishFetch

SpecDiscovery == InitDiscovery /\ [][NextDiscovery]_vars

(* -------------------------------------------------------- scoring engine *)
MaxBatch == 3       \* subreddits in one discovery batch

\* Subreddit names, listed in lexicographic order.
SubredditNames == <<"golang", "python", "rust">>
NameIndex(n) == CHOOSE i \in 1..Len(SubredditNames) : SubredditNames[i] = n

\* The raw signals of one candidate; subscribers are powers of two less one.
RawMetrics ==
  [mention_count : 0..2, avg_engagement : 0..1, subscribers : {0, 1},
   topic_relevance : 0..1]

\* The weights of the composite, in hundredths.
Weights ==
  [mention_count |-> 35, avg_engagement |-> 30, subscribers |-> 20,
   topic_relevance |-> 15]
Metrics == DOMAIN Weights

Values(b, m) == {b[i][m] : i \in 1..Len(b)}
MaxOf(S) == CHOOSE x \in S : \A y \in S : y <= x
MinOf(S) == CHOOSE x \in S : \A y \in S : x <= y

\* Fractions are pairs <<numerator, denominator>>.
\* (x - min) / (max - min), written without its guard.
minmaxUnguarded(x, lo, hi) == <<x - lo, hi - lo>>

\* minmax(x): (x - min) / (max - min), defined as 0 when max == min.
minmax(x, lo, hi) == IF hi = lo THEN <<0, 1>> ELSE <<x - lo, hi - lo>>

RECURSIVE Log2(_)
Log2(n) == IF n <= 1 THEN 0 ELSE 1 + Log2(n \div 2)

\* lognorm(x) = log(1+x) / log(1+max_subscribers_in_batch), guarded alike.
lognorm(x, hi) == IF hi = 0 THEN <<0, 1>> ELSE <<Log2(1 + x), Log2(1 + hi)>>

\* The four normalized metrics of entry i of batch b.
normalize(b, i) ==
  [m \in Metrics |->
     IF m = "subscribers"
       THEN lognorm(b[i][m], MaxOf(Values(b, m)))
       ELSE minmax(b[i][m], MinOf(Values(b, m)), MaxOf(Values(b, m)))]

\* The weighted sum over the batch's common denominator (the product of the
\* four denominators, which depend on the batch only), times 100.
RECURSIVE Product(_, _)
Product(n, S) ==
  IF S = {} THEN 1
  ELSE LET m == CHOOSE x \in S : TRUE IN n[m][2] * Product(n, S \ {m})

RECURSIVE WeightedSum(_, _)
WeightedSum(n, S) ==
  IF S = {} THEN 0
  ELSE LET m == CHOOSE x \in S : TRUE
       IN Weights[m] * n[m][1] * Product(n, Metrics \ {m})
            + WeightedSum(n, S \ {m})

score(n) == WeightedSum(n, Metrics)

scoreBatch(b) ==
  [i \in 1..Len(b) |->
     [name |-> b[i].name, mention_count |-> b[i].mention_count,
      norm |-> normalize(b, i), score |-> score(normalize(b, i))]]

\* A ranking that breaks score ties by mention_count only.
beforeNoName(x, y) ==
  \/ x.score > y.score
  \/ x.score = y.score /\ x.mention_count > y.mention_count

\* Descending score; ties by higher mention_count, then by name.
before(x, y) ==
  \/ x.score > y.score
  \/ x.score = y.score /\ x.mention_count > y.mention_count
  \/ /\ x.score = y.score /\ x.mention_count = y.mention_count
     /\ NameIndex(x.name) < NameIndex(y.name)

\* A stable sort: each entry goes in front of the first one it is before.
insert(x, out) ==
  LET hits == {k \in 1..Len(out) : before(x, out[k])}
      at == IF hits = {} THEN Len(out) + 1 ELSE MinOf(hits)
  IN SubSeq(out, 1, at - 1) \o <<x>> \o SubSeq(out, at, Len(out))

RECURSIVE sortFrom(_, _, _)
sortFrom(sc, i, out) ==
  IF i > Len(sc) THEN out ELSE sortFrom(sc, i + 1, insert(sc[i], out))

rank(b) ==
  LET out == sortFrom(scoreBatch(b), 1, << >>)
  IN [k \in 1..Len(out) |-> [name |-> out[k].name, score |-> out[k].score]]

InitScore ==
  /\ PageInit /\ ViewsIdle /\ CollectIdle /\ ResolverIdle /\ AnalyticsIdle
  /\ \E n \in 1..MaxBatch :
       \E names \in [1..n -> {SubredditNames[k] : k \in 1..Len(SubredditNames)}],
          raw \in [1..n -> RawMetrics] :
         /\ \A i, j \in 1..n : names[i] = names[j] => i = j
         /\ batch = [i \in 1..n |->
                       [name |-> names[i],
                        mention_count |-> raw[i].mention_count,
                        avg_engagement |-> raw[i].avg_engagement,
                        subscribers |-> raw[i].subscribers,
                        topic_relevance |-> raw[i].topic_relevance]]
  /\ stage = "input" /\ scored = << >> /\ ranked = << >>

\* The engine normalizes the batch and computes every composite score.
ComputeScores ==
  /\ stage = "input"
  /\ scored' = scoreBatch(batch)
  /\ stage' = "scored"
  /\ UNCHANGED <<notScoring, batch, ranked>>

\* The engine returns the batch sorted best first.
RankBatch ==
  /\ stage = "scored"
  /\ ranked' = rank(batch)
  /\ stage' = "ranked"
  /\ UNCHANGED <<notScoring, batch, scored>>

NextScore == ComputeScores \/ RankBatch

SpecScore == InitScore /\ [][NextScore]_vars

(* ------------------------------------------------------- entity resolver *)
MaxMentions == 4    \* mentions resolved in one Job

\* Confidences and similarities are in hundredths.
ExactConfidence == 100   \* "Exact normalized match = 1.0"
FuzzyLow == 70           \* lower similarity threshold, 0.7
FuzzyHigh == 90          \* upper similarity threshold, 0.9

\* Surface forms, one character per element.
OpenAI == <<"O", "p", "e", "n", "A", "I">>
OpenAiInc == <<"o", "p", "e", "n", " ", "a", "i", " ", "i", "n", "c", ".">>
OpenSpaceAI == <<"O", "p", "e", "n", " ", "A", "I">>
AtOpenAiLtd ==
  <<"@", "o", "p", "e", "n", " ", " ", "a", "i", ",", " ", "L", "t", "d", ".">>
Anthropic == <<"A", "n", "t", "h", "r", "o", "p", "i", "c">>
SurfaceForms == {OpenAI, OpenAiInc, OpenSpaceAI, AtOpenAiLtd, Anthropic}

LlmConfidences == {0, 80, 100}
Similarities == {50, 70, 80, 95}

lower(c) ==
  CASE c = "O" -> "o" [] c = "A" -> "a" [] c = "I" -> "i" [] c = "L" -> "l"
    [] OTHER -> c
Punctuation == {".", ",", "@"}
CompanySuffixes == {<<"i", "n", "c">>, <<"c", "o", "r", "p">>, <<"l", "t", "d">>}

\* The words of s: the maximal runs of characters other than the space.
RECURSIVE words(_, _, _)
words(s, i, word) ==
  IF i > Len(s) THEN (IF word = << >> THEN << >> ELSE <<word>>)
  ELSE IF s[i] = " "
    THEN (IF word = << >> THEN << >> ELSE <<word>>) \o words(s, i + 1, << >>)
    ELSE words(s, i + 1, Append(word, s[i]))

RECURSIVE stripSuffixes(_)
stripSuffixes(ws) ==
  IF ws # << >> /\ ws[Len(ws)] \in CompanySuffixes
    THEN stripSuffixes(SubSeq(ws, 1, Len(ws) - 1))
    ELSE ws

\* The words again, single spaces between them.
RECURSIVE join(_)
join(ws) ==
  IF ws = << >> THEN << >>
  ELSE IF Len(ws) = 1 THEN ws[1]
  ELSE ws[1] \o <<" ">> \o join(Tail(ws))

cleaned(s) ==
  LET low == [i \in 1..Len(s) |-> lower(s[i])]
      keep(c) == c \notin Punctuation
  IN SelectSeq(low, keep)

\* A normalization that leaves company suffixes in place.
normalizeKeepSuffix(s) == join(words(cleaned(s), 1, << >>))

\* Lowercase; strip punctuation and @; strip company suffixes; collapse
\* repeated whitespace.
normalizeName(s) == join(stripSuffixes(words(cleaned(s), 1, << >>)))

\* A resolver that merges on any similarity.
acceptsAny(sim) == sim >= 0

\* Fuzzy matches are accepted from the lower threshold on.
accepts(sim) == sim >= FuzzyLow

\* A final confidence that takes the weaker of the two stages, 0..10000.
mentionConfidenceMin(llm, resolution) ==
  100 * (IF llm <= resolution THEN llm ELSE resolution)

\* Final confidence = llm_confidence * resolution_confidence, 0..10000.
mentionConfidence(llm, resolution) == llm * resolution

\* formatConfidence(n): (n * 100).toFixed(0), n in ten-thousandths.
formatConfidence(n) == (n + 50) \div 100

KnownIn(key) == {e \in 1..Len(entities) : key \in entities[e].names}

bind(s, e, resolution, sim, llm) ==
  /\ mentions' = Append(mentions,
       [surface |-> s, entity |-> e, similarity |-> sim,
        resolution_confidence |-> resolution])
  /\ shown' = [llm_confidence |-> llm,
               confidence |-> mentionConfidence(llm, resolution),
               percent |-> formatConfidence(mentionConfidence(llm, resolution))]

InitResolve ==
  /\ PageInit /\ ViewsIdle /\ CollectIdle /\ ScoringIdle /\ AnalyticsIdle
  /\ ResolverIdle

\* The normalized surface form is a name of an existing Entity: the mention
\* binds to it with confidence 1.0 and the fuzzy step is skipped.
ResolveExact(s, llm) ==
  /\ Len(mentions) < MaxMentions
  /\ KnownIn(normalizeName(s)) # {}
  /\ \E e \in KnownIn(normalizeName(s)) : bind(s, e, ExactConfidence, 100, llm)
  /\ UNCHANGED <<notResolver, entities>>

\* No exact match; the best fuzzy match e scores sim and is accepted: the
\* mention merges into e at that score and its form becomes an alias. At or
\* above the upper threshold the score or full confidence is assigned.
ResolveFuzzy(s, llm, e, sim) ==
  /\ Len(mentions) < MaxMentions
  /\ KnownIn(normalizeName(s)) = {}
  /\ e \in 1..Len(entities)
  /\ accepts(sim)
  /\ \E c \in (IF sim < FuzzyHigh THEN {sim} ELSE {sim, ExactConfidence}) :
       bind(s, e, c, sim, llm)
  /\ entities' = [entities EXCEPT ![e].names = @ \cup {normalizeName(s)}]
  /\ UNCHANGED notResolver

\* No exact match and no accepted fuzzy match (sim is the best score, 0 for an
\* empty pool): the mention spawns a new Entity.
ResolveNew(s, llm, sim) ==
  /\ Len(mentions) < MaxMentions
  /\ KnownIn(normalizeName(s)) = {}
  /\ entities = << >> \/ ~accepts(sim)
  /\ bind(s, Len(entities) + 1, ExactConfidence,
          IF entities = << >> THEN 0 ELSE sim, llm)
  /\ entities' = Append(entities, [canonical_name |-> s,
                                   names |-> {normalizeName(s)}])
  /\ UNCHANGED notResolver

NextResolve ==
  \/ \E s \in SurfaceForms, llm \in LlmConfidences : ResolveExact(s, llm)
  \/ \E s \in SurfaceForms, llm \in LlmConfidences, sim \in Similarities :
       \E e \in 1..Len(entities) : ResolveFuzzy(s, llm, e, sim)
  \/ \E s \in SurfaceForms, llm \in LlmConfidences, sim \in Similarities :
       ResolveNew(s, llm, sim)

SpecResolve == InitResolve /\ [][NextResolve]_vars

(* -------------------------------------------------- competitive analytics *)
MaxSources == 2     \* Sources aggregated in one overview

\* The target company and its declared competitors, in their given order.
Targets == <<"acme", "bolt", "core">>
TargetSet == {Targets[i] : i \in 1..Len(Targets)}
TargetIndex(t) == CHOOSE i \in 1..Len(Targets) : Targets[i] = t
Subreddits == {"golang", "rust"}

\* How often a Source mentions each target.
MentionsPerSource == [TargetSet -> 0..2]

RECURSIVE Sum(_, _)
Sum(f, S) ==
  IF S = {} THEN 0
  ELSE LET x == CHOOSE y \in S : TRUE IN f[x] + Sum(f, S \ {x})

\* count_target / total_mentions_in_subreddit, written without its guard.
shareUnguarded(count, total) == <<count, total>>

\* share = count_target / total_mentions_in_subreddit (0 when total is 0),
\* as <<numerator, denominator>>.
share(count, total) == IF total = 0 THEN <<0, 1>> ELSE <<count, total>>

\* SubredditShare: {subreddit, total, counts, share}.
shareRow(sub) ==
  LET total == Sum(counts[sub], TargetSet)
  IN [subreddit |-> sub, total |-> total, counts |-> counts[sub],
      share |-> [t \in TargetSet |-> share(counts[sub][t], total)]]

\* Every ordered pair of different targets a Source mentions.
pairsOrdered(m) ==
  {p \in TargetSet \X TargetSet : p[1] # p[2] /\ m[p[1]] > 0 /\ m[p[2]] > 0}

\* Each unordered pair of targets a Source mentions, once.
pairsOf(m) ==
  {p \in TargetSet \X TargetSet :
     /\ TargetIndex(p[1]) < TargetIndex(p[2])
     /\ m[p[1]] > 0 /\ m[p[2]] > 0}

\* Increment the counter of every pair in ps: CoMentionsSummary {pair, count}.
RECURSIVE countPairs(_, _)
countPairs(co, ps) ==
  IF ps = {} THEN co
  ELSE LET p == CHOOSE q \in ps : TRUE
           at == {k \in 1..Len(co) : co[k].pair = p}
       IN countPairs(
            IF at = {} THEN Append(co, [pair |-> p, count |-> 1])
            ELSE [k \in 1..Len(co) |->
                    IF k \in at THEN [co[k] EXCEPT !.count = @ + 1] ELSE co[k]],
            ps \ {p})

InitAnalytics ==
  /\ PageInit /\ ViewsIdle /\ CollectIdle /\ ScoringIdle /\ ResolverIdle
  /\ sourcesSeen = {}
  /\ counts = [sub \in Subreddits |-> [t \in TargetSet |-> 0]]
  /\ coMentions = << >>
  /\ overview = << >>

\* One more persisted Source, with its target mentions, is aggregated.
AggregateSource(sub, m) ==
  /\ Cardinality(sourcesSeen) < MaxSources
  /\ sourcesSeen' = sourcesSeen \cup
       {[id |-> Cardinality(sourcesSeen) + 1, subreddit |-> sub,
         mentions |-> m]}
  /\ counts' = [counts EXCEPT ![sub] = [t \in TargetSet |-> @[t] + m[t]]]
  /\ coMentions' = countPairs(coMentions, pairsOf(m))
  /\ UNCHANGED <<notAnalytics, overview>>

\* GET /api/competitive: the share rows are derived from the counts.
ComputeOverview ==
  /\ overview' = [sub \in Subreddits |-> shareRow(sub)]
  /\ UNCHANGED <<notAnalytics, sourcesSeen, counts, coMentions>>

NextAnalytics ==
  \/ \E sub \in Subreddits, m \in MentionsPerSource : AggregateSource(sub, m)
  \/ ComputeOverview

SpecAnalytics == InitAnalytics /\ [][NextAnalytics]_vars

(* ------------------------------------------- useEntityDetail, the modal *)
MaxDetailCalls == 3   \* fetch() calls in one session
EntityIds == {1, 2}
DetailFallback == "Failed to fetch entity details"

\* EntityDetail renders (the modal is open) unless all three props are empty.
ModalOpen ==
  detailEntity # NoEntity \/ detailIsLoading \/ detailError # NULL

notDetail == <<form, hook, pollRef, timers, net, jobs, page, backend,
               graphView, api>>

InitDetail == PageInit /\ BackendIdle /\ ViewsIdle

\* handleEntitySelect: a row of the entity list is clicked (the list is
\* covered while the modal is open); fetch(id) up to its await.
fetch(id) ==
  /\ ~ModalOpen
  /\ detailSeq < MaxDetailCalls
  /\ detailIsLoading' = TRUE
  /\ detailError' = NULL
  /\ detailSeq' = detailSeq + 1
  /\ detailCalls' = detailCalls \cup {[seq |-> detailSeq + 1, id |-> id]}
  /\ detailLatest' = [NoOutcome EXCEPT !.pending = TRUE]
  /\ UNCHANGED <<notDetail, detailEntity>>

\* fetch() after getEntityDetail resolved for call c.
fetchResolved(c) ==
  /\ c \in detailCalls
  /\ detailCalls' = detailCalls \ {c}
  /\ detailEntity' = c.id
  /\ detailIsLoading' = FALSE
  /\ detailLatest' =
       IF c.seq = detailSeq /\ detailLatest.pending
         THEN [NoOutcome EXCEPT !.entity = c.id, !.answered = TRUE]
         ELSE detailLatest
  /\ UNCHANGED <<notDetail, detailError, detailSeq>>

\* fetch()'s catch branch for call c.
fetchRejected(c, isApiError) ==
  /\ c \in detailCalls
  /\ detailCalls' = detailCalls \ {c}
  /\ detailError' = IF isApiError THEN ApiErrorMessage ELSE DetailFallback
  /\ detailEntity' = NoEntity
  /\ detailIsLoading' = FALSE
  /\ detailLatest' =
       IF c.seq = detailSeq /\ detailLatest.pending
         THEN [NoOutcome EXCEPT !.error = detailError', !.answered = TRUE]
         ELSE detailLatest
  /\ UNCHANGED <<notDetail, detailSeq>>

\* The modal's close button: onClose = entityDetail.clear.
clear ==
  /\ ModalOpen
  /\ detailEntity' = NoEntity /\ detailError' = NULL
  /\ detailIsLoading' = FALSE
  /\ detailLatest' = NoOutcome
  /\ UNCHANGED <<notDetail, detailCalls, detailSeq>>

NextDetail ==
  \/ \E id \in EntityIds : fetch(id)
  \/ \E c \in detailCalls : fetchResolved(c)
  \/ \E c \in detailCalls, a \in BOOLEAN : fetchRejected(c, a)
  \/ clear

SpecDetail == InitDetail /\ [][NextDetail]_vars

(* ------------------------------------------------------------- GraphView *)
MaxNodes == 3     \* nodes of the graph data
MaxEdges == 2     \* edges of the graph data
GraphNodeIds == {1, 2, 3}
MissingId == 9    \* an entity id that is no node of the graph data
Width == 800
Height == 500
Padding == 60
Iterations == 50
Repulsion == 2000
AttractionDiv == 100   \* force = dist * 0.01
GravityDiv == 100      \* (centre - position) * 0.01
Scale == 64            \* coordinates are kept in 1/64 pixel, truncating

\* Division that truncates toward zero.
Quot(a, b) == IF a >= 0 THEN a \div b ELSE -((-a) \div b)

RECURSIVE Newton(_, _)
Newton(n, x) ==
  LET y == (x + n \div x) \div 2 IN IF y >= x THEN x ELSE Newton(n, y)

\* Math.sqrt(dx * dx + dy * dy) || 1
dist(dx, dy) ==
  LET n == dx * dx + dy * dy
      d == IF n = 0 THEN 0 ELSE Newton(n, Min(n, 2 * Scale * Width))
  IN IF d = 0 THEN Scale ELSE d

\* 1000 * <<cos, sin>> of 2 * PI * i / n, i counted from 0.
CosSin(i, n) ==
  CASE i = 0 -> <<1000, 0>>
    [] n = 2 -> <<-1000, 0>>
    [] n = 3 /\ i = 1 -> <<-500, 866>>
    [] n = 3 /\ i = 2 -> <<-500, -866>>
    [] n = 4 /\ i = 1 -> <<0, 1000>>
    [] n = 4 /\ i = 2 -> <<-1000, 0>>
    [] n = 4 /\ i = 3 -> <<0, -1000>>

\* The initial positions, on a circle.
circle(n) ==
  LET radius == (Min(Width, Height) * Scale) \div 3
  IN [i \in 1..n |->
        [x |-> (Width * Scale) \div 2 + Quot(radius * CosSin(i - 1, n)[1], 1000),
         y |-> (Height * Scale) \div 2 + Quot(radius * CosSin(i - 1, n)[2], 1000)]]

\* nodeIdToIndex.get(id), 0 for undefined.
nodeIdToIndex(nodes, id) ==
  IF \E i \in 1..Len(nodes) : nodes[i].id = id
    THEN CHOOSE i \in 1..Len(nodes) :
           nodes[i].id = id /\ \A j \in 1..Len(nodes) : nodes[j].id = id => j <= i
    ELSE 0

move(pos, i, fx, fy) ==
  [pos EXCEPT ![i] = [x |-> @.x + fx, y |-> @.y + fy]]

\* One step of the repulsion loop, for the pair i < j.
repel(pos, i, j) ==
  LET dx == pos[j].x - pos[i].x
      dy == pos[j].y - pos[i].y
      d == dist(dx, dy)
      force == (Repulsion * Scale * Scale * Scale) \div (d * d)
      fx == Quot(dx * force, d)
      fy == Quot(dy * force, d)
  IN move(move(pos, i, -fx, -fy), j, fx, fy)

RECURSIVE repulsion(_, _, _)
repulsion(pos, i, j) ==
  IF i > Len(pos) THEN pos
  ELSE IF j > Len(pos) THEN repulsion(pos, i + 1, i + 2)
  ELSE repulsion(repel(pos, i, j), i, j + 1)

\* The pull of one edge on its two endpoints.
pull(pos, sourceIdx, targetIdx) ==
  LET dx == pos[targetIdx].x - pos[sourceIdx].x
      dy == pos[targetIdx].y - pos[sourceIdx].y
      d == dist(dx, dy)
      force == d \div AttractionDiv
      fx == Quot(dx * force, d)
      fy == Quot(dy * force, d)
  IN move(move(pos, sourceIdx, fx, fy), targetIdx, -fx, -fy)

\* An attraction step that takes the first node for an endpoint it cannot
\* find.
attractAny(pos, nodes, edge) ==
  LET sourceIdx == nodeIdToIndex(nodes, edge.source)
      targetIdx == nodeIdToIndex(nodes, edge.target)
  IN pull(pos, IF sourceIdx = 0 THEN 1 ELSE sourceIdx,
               IF targetIdx = 0 THEN 1 ELSE targetIdx)

\* One step of the attraction loop.
attract(pos, nodes, edge) ==
  LET sourceIdx == nodeIdToIndex(nodes, edge.source)
      targetIdx == nodeIdToIndex(nodes, edge.target)
  IN IF sourceIdx = 0 \/ targetIdx = 0 THEN pos
     ELSE pull(pos, sourceIdx, targetIdx)

RECURSIVE attraction(_, _, _, _)
attraction(pos, nodes, edges, k) ==
  IF k > Len(edges) THEN pos
  ELSE attraction(attract(pos, nodes, edges[k]), nodes, edges, k + 1)

gravity(pos) ==
  [i \in 1..Len(pos) |->
     [x |-> pos[i].x + Quot((Width * Scale) \div 2 - pos[i].x, GravityDiv),
      y |-> pos[i].y + Quot((Height * Scale) \div 2 - pos[i].y, GravityDiv)]]

RECURSIVE simulate(_, _, _, _)
simulate(pos, nodes, edges, iter) ==
  IF iter = Iterations THEN pos
  ELSE LET next == gravity(attraction(repulsion(pos, 1, 2), nodes, edges, 1))
       IN IF next = << >> THEN next
          ELSE simulate(next, nodes, edges, iter + 1)

clamp(lo, hi, v) == IF v < lo THEN lo ELSE IF v > hi THEN hi ELSE v

\* The useMemo that computes positionedNodes.
layout(nodes, edges) ==
  IF Len(nodes) = 0 THEN << >>
  ELSE LET pos == simulate(circle(Len(nodes)), nodes, edges, 0)
       IN [i \in 1..Len(nodes) |->
             [id |-> nodes[i].id,
              x |-> clamp(Padding * Scale, (Width - Padding) * Scale, pos[i].x),
              y |-> clamp(Padding * Scale, (Height - Padding) * Scale, pos[i].y)]]

\* The keys of nodeMap.
nodeMapKeys == {positionedNodes[i].id : i \in 1..Len(positionedNodes)}

incident(e, n) == e.source = n \/ e.target = n

\* highlightedEdges: the indices the filtered edges have in the filtered array.
highlightedEdges ==
  IF hoveredNode = NoNode THEN {}
  ELSE 1..Len(SelectSeq(data.edges, LAMBDA e : incident(e, hoveredNode)))

\* The edges the render draws a line for.
drawnEdges ==
  IF Len(data.nodes) = 0 THEN {}
  ELSE {i \in 1..Len(data.edges) :
          data.edges[i].source \in nodeMapKeys /\ data.edges[i].target \in nodeMapKeys}

isHighlighted(i) ==
  hoveredEdge = i \/ (hoveredNode # NoNode /\ i \in highlightedEdges)

notGraph == <<form, hook, pollRef, timers, net, jobs, page, backend, detail, api>>

RECURSIVE distinctSeqs(_, _)
distinctSeqs(S, n) ==
  IF n = 0 THEN {<< >>}
  ELSE LET shorter == distinctSeqs(S, n - 1)
       IN shorter \cup
          {Append(q, [id |-> v]) : q \in {r \in shorter : Len(r) = n - 1},
                                   v \in S}

GraphInputs ==
  LET ends == GraphNodeIds \cup {MissingId}
      Edge == [source : ends, target : ends]
  IN {[nodes |-> ns, edges |-> es] :
        ns \in {q \in distinctSeqs(GraphNodeIds, MaxNodes) :
                  \A i, j \in 1..Len(q) : q[i].id = q[j].id => i = j},
        es \in UNION {[1..k -> Edge] : k \in 0..MaxEdges}}

InitGraph ==
  /\ PageInit /\ BackendIdle /\ DetailIdle /\ ApiIdle
  /\ data \in GraphInputs
  /\ positionedNodes = layout(data.nodes, data.edges)
  /\ hoveredNode = NoNode /\ hoveredEdge = NoEdge

\* onMouseEnter of a node's <g>.
HoverNode(id) ==
  /\ hoveredNode = NoNode /\ hoveredEdge = NoEdge
  /\ id \in nodeMapKeys
  /\ hoveredNode' = id
  /\ UNCHANGED <<notGraph, data, positionedNodes, hoveredEdge>>

\* onMouseLeave of a node's <g>.
LeaveNode ==
  /\ hoveredNode # NoNode
  /\ hoveredNode' = NoNode
  /\ UNCHANGED <<notGraph, data, positionedNodes, hoveredEdge>>

\* onMouseEnter of an edge's <line>.
HoverEdge(i) ==
  /\ hoveredNode = NoNode /\ hoveredEdge = NoEdge
  /\ i \in drawnEdges
  /\ hoveredEdge' = i
  /\ UNCHANGED <<notGraph, data, positionedNodes, hoveredNode>>

\* onMouseLeave of an edge's <line>.
LeaveEdge ==
  /\ hoveredEdge # NoEdge
  /\ hoveredEdge' = NoEdge
  /\ UNCHANGED <<notGraph, data, positionedNodes, hoveredNode>>

NextGraph ==
  \/ \E id \in GraphNodeIds : HoverNode(id)
  \/ LeaveNode
  \/ \E i \in 1..MaxEdges : HoverEdge(i)
  \/ LeaveEdge

SpecGraph == InitGraph /\ [][NextGraph]_vars

(* ------------------------------------------------------------- apiClient *)
Statuses == {200, 201, 400, 404, 422, 500}
StatusTexts == {"", "Error"}

\* Response.ok
ok(code) == code >= 200 /\ code <= 299

Str(text) == [type |-> "string", text |-> text]
ArrayValue == [type |-> "array", text |-> ""]

\* The bodies a Response can carry: not JSON, the JSON null, or an object
\* with or without detail and message.
Bodies ==
  {NoBody, [NoBody EXCEPT !.json = TRUE]}
    \cup {[json |-> TRUE, object |-> TRUE, detail |-> d, message |-> m] :
            d \in {Undefined, Str(""), Str("Job not found"), ArrayValue},
            m \in {Undefined, Str(""), Str("bad request")}}

\* JavaScript truthiness of a JSON value.
truthy(v) == v.type = "array" \/ (v.type = "string" /\ v.text # "")

\* String(v) for a truthy value; the array holds one object.
String(v) == IF v.type = "array" THEN "[object Object]" ELSE v.text

\* new ApiError(status, statusText, message) as the rejection of a call.
ApiError(method, code, statusText, message) ==
  [method |-> method, kind |-> "rejected", name |-> "ApiError",
   status |-> code,
   message |-> IF truthy(message) THEN String(message)
               ELSE ToString(code) \o " " \o statusText,
   value |-> NoBody]

\* What response.json() rejects with on a body that is not JSON.
SyntaxError(method) ==
  [Pending EXCEPT !.method = method, !.kind = "rejected",
                  !.name = "SyntaxError",
                  !.message = "Unexpected token"]

\* A handleResponse without the try/catch around the error body.
handleResponseNoCatch(method, r) ==
  IF ~ok(r.status)
    THEN IF r.body.json /\ r.body.object
           THEN ApiError(method, r.status, r.statusText,
                         IF truthy(r.body.detail) THEN r.body.detail
                         ELSE r.body.message)
           ELSE SyntaxError(method)
    ELSE IF r.body.json
           THEN [Pending EXCEPT !.method = method, !.kind = "resolved",
                                !.value = r.body]
           ELSE SyntaxError(method)

\* handleResponse: a body that is not JSON, or the JSON null (reading
\* body.detail throws), leaves message undefined.
handleResponse(method, r) ==
  IF ~ok(r.status)
    THEN ApiError(method, r.status, r.statusText,
                  IF r.body.json /\ r.body.object
                    THEN IF truthy(r.body.detail) THEN r.body.detail
                         ELSE r.body.message
                    ELSE Undefined)
    ELSE IF r.body.json
           THEN [Pending EXCEPT !.method = method, !.kind = "resolved",
                                !.value = r.body]
           ELSE SyntaxError(method)

notApi == <<form, hook, pollRef, timers, net, jobs, page, backend, detail,
            graphView>>

\* fetch() has resolved with a Response; the call has not returned yet.
InitApi ==
  /\ PageInit /\ BackendIdle /\ DetailIdle /\ GraphIdle
  /\ response \in [status : Statuses, statusText : StatusTexts, body : Bodies]
  /\ settled = Pending

get ==
  /\ settled = Pending
  /\ settled' = handleResponse("GET", response)
  /\ UNCHANGED <<notApi, response>>

post ==
  /\ settled = Pending
  /\ settled' = handleResponse("POST", response)
  /\ UNCHANGED <<notApi, response>>

NextApi == get \/ post

SpecApi == InitApi /\ [][NextApi]_vars

(* ---------------------------------------------------------------- claims *)
Rank(p) == IF p = NULL THEN 0 ELSE StepIndex(p)

\* C1: while the server has exactly one Job and the hook keeps its job id,
\* the progress the hook exposes never moves to an earlier step of the fixed
\* sequence, whatever order the poll responses arrive in.
C1_ProgressNeverBackwards ==
  [][(Len(jobs) = 1 /\ jobId # NoJob /\ jobId' = jobId
        /\ progress # NULL /\ progress' # NULL)
      => Rank(progress') >= Rank(progress)]_vars

\* C2: once the hook shows complete or failed, its status goes back to
\* queued or running only in a step of start() (its response being adopted);
\* reset() leaves it null.
C2_TerminalStatusStays ==
  [][(status \in Terminal /\ status' \in Active)
      => \E r \in BagToSet(startResps) : StartResolved(r)]_vars

\* C3: in every reachable state the hook's result is non-null only if its
\* status is complete.
C3_ResultOnlyWhenComplete == result # NoJob => status = "complete"

\* C4: when a poll response with status complete or failed is processed,
\* the hook holds no interval handle afterwards and no interval that polls
\* that Job is left running (so no further status request is sent for it).
C4_PollingStopsAtTerminal ==
  [][\A r \in BagToSet(pollResps) :
       (PollResolved(r) /\ r.status \in Terminal)
         => (pollRef' = NoJob /\ r.job_id \notin timers')]_vars

\* C5: a form submitted with domain d and competitors c sends a POST
\* /api/analyze whose body carries domain d and competitors c.
C5_PostCarriesCompetitors ==
  [][Submit =>
      BagIn([domain |-> form.domain, competitors |-> form.competitors],
            startReqs')]_vars

\* C6: the Retry action issues a new POST /api/analyze.
C6_RetryStartsNewJob ==
  [][reset => BagCardinality(startReqs') = BagCardinality(startReqs) + 1]_vars

\* C7: in every reachable state, a hook whose status is failed exposes a
\* non-empty error message.
C7_FailedHasMessage == status = "failed" => error \notin {NULL, ""}

\* C8: fetchAllData is called only when the current Job (the hook's jobId)
\* is complete, never while it is queued or running or there is none.
C8_FetchOnlyAfterComplete ==
  [][dataFetches' > dataFetches
      => (jobId' # NoJob /\ jobs[jobId'].status = "complete")]_vars

\* C9: every call of start() (the only step that turns isLoading on) sends
\* exactly one new POST /api/analyze for the form's domain and drops the
\* earlier result; every start response that is taken in makes its job_id the
\* hook's jobId, a Job other than the one held before, created for that call.
C9_StartAlwaysNewJob ==
  [][/\ (~isLoading /\ isLoading') =>
          /\ BagCardinality(startReqs') = BagCardinality(startReqs) + 1
          /\ \E b \in BagToSet(startReqs') :
               /\ b.domain = form.domain
               /\ startReqs' = startReqs (+) SetToBag({b})
          /\ result' = NoJob
     /\ \A r \in BagToSet(startResps) :
          startResps' = startResps (-) SetToBag({r}) =>
            /\ jobId' = r.job_id
            /\ jobId' # jobId
            /\ jobs[jobId'].result = NoJob \/ jobs[jobId'].result = jobId'
    ]_vars

\* C9 witness: the same domain was analysed by an earlier, completed Job and
\* the hook has adopted the second Job, not the first.
C9_Witness ==
  /\ Len(jobs) = 2
  /\ jobs[1].domain = jobs[2].domain
  /\ jobs[1].status = "complete"
  /\ jobId = 2

\* C10: a Job is created queued with no progress, result or error; it then
\* moves one step at a time through the fixed sequence to complete (the
\* progress bar's percentage growing with every step), or from a running step
\* directly to failed with no result; a complete or failed Job never changes.
JobMove(a, b) ==
  \/ b = a
  \/ /\ a.status = "queued" /\ b.status = "running"
     /\ b.progress = ProgressSteps[1]
     /\ b.result = NoJob /\ b.error = NULL
  \/ /\ a.status = "running" /\ b.status = "running"
     /\ StepIndex(b.progress) = StepIndex(a.progress) + 1
     /\ progressPercent(b.progress) > progressPercent(a.progress)
     /\ b.result = NoJob /\ b.error = NULL
  \/ /\ a.status = "running" /\ b.status = "complete"
     /\ a.progress = ProgressSteps[Len(ProgressSteps)]
     /\ b.result # NoJob /\ b.error = NULL
     /\ percent(b.status, b.progress) >= percent(a.status, a.progress)
  \/ /\ a.status = "running" /\ b.status = "failed"
     /\ b.progress = a.progress /\ b.result = NoJob

C10_JobStateMachine ==
  [][/\ Len(jobs') >= Len(jobs)
     /\ \A i \in 1..Len(jobs') :
          IF i > Len(jobs)
            THEN /\ jobs'[i].status = "queued" /\ jobs'[i].progress = NULL
                 /\ jobs'[i].result = NoJob /\ jobs'[i].error = NULL
            ELSE /\ JobMove(jobs[i], jobs'[i])
                 /\ jobs'[i].domain = jobs[i].domain
    ]_vars

\* C10 witness: one Job went through every step to complete and another
\* failed in the middle of the sequence.
C10_Witness ==
  /\ Len(jobs) = 2
  /\ jobs[1].status = "complete" /\ jobs[1].result = 1
  /\ jobs[2].status = "failed" /\ jobs[2].progress = "fetching_sources"

C15_TopCutoffs ==
  /\ Cardinality(persisted) <= 20
  /\ phase \in {"fetching", "done"} =>
       persisted = {r \in 1..candidates : r <= 20}
  /\ Cardinality(fetchedFrom) <= 5
  /\ fetchedFrom \subseteq {r \in persisted : r <= 5}
  /\ phase = "done" => fetchedFrom = {r \in 1..candidates : r <= 5}

\* C15 witness: more than 20 candidates were found, 20 were stored and the
\* sources of exactly the 5 best were requested.
C15_Witness ==
  /\ phase = "done"
  /\ candidates > 20
  /\ Cardinality(persisted) = 20
  /\ fetchedFrom = 1..5

\* Every reordering of the batch, as the engine could have received it.
Reorderings(b) ==
  {q \in [1..Len(b) -> {b[i] : i \in 1..Len(b)}] :
     \A i, j \in 1..Len(b) : q[i] = q[j] => i = j}

\* C14: the ranked list is the same for every permutation of the batch; it
\* holds every candidate once, in descending score, equal scores by higher
\* mention_count and then by lexicographic name.
C14_RankingPermutationIndependent ==
  stage = "ranked" =>
    /\ \A q \in Reorderings(batch) : rank(q) = ranked
    /\ Len(ranked) = Len(batch)
    /\ {ranked[k].name : k \in 1..Len(ranked)}
         = {batch[i].name : i \in 1..Len(batch)}
    /\ \A k \in 1..(Len(ranked) - 1) :
         LET x == CHOOSE e \in {batch[i] : i \in 1..Len(batch)} :
                    e.name = ranked[k].name
             y == CHOOSE e \in {batch[i] : i \in 1..Len(batch)} :
                    e.name = ranked[k + 1].name
         IN \/ ranked[k].score > ranked[k + 1].score
            \/ /\ ranked[k].score = ranked[k + 1].score
               /\ x.mention_count > y.mention_count
            \/ /\ ranked[k].score = ranked[k + 1].score
               /\ x.mention_count = y.mention_count
               /\ NameIndex(x.name) < NameIndex(y.name)

\* C14 witness: a batch handed over out of rank order in which one score
\* tie is settled by mention_count and another by name.
C14_Witness ==
  /\ stage = "ranked"
  /\ Len(batch) = 3
  /\ ranked[1].score = ranked[2].score /\ ranked[2].score = ranked[3].score
  /\ \E i, j \in 1..3 :
       /\ batch[i].mention_count # batch[j].mention_count
       /\ \E k \in 1..3 : k # i /\ k # j
            /\ batch[k].mention_count = batch[j].mention_count
  /\ ranked[1].name # batch[1].name

\* C19: every minmax value is the fraction (x - min) / (max - min) with a
\* non-zero denominator and lies in [0,1]; when all values of a metric are
\* equal in the batch, its minmax value is 0 for every subreddit.
C19_MinMaxInUnitInterval ==
  stage \in {"scored", "ranked"} =>
    \A i \in 1..Len(scored) :
      \A m \in {"mention_count", "avg_engagement", "topic_relevance"} :
        LET v == scored[i].norm[m]
            lo == MinOf(Values(batch, m))
            hi == MaxOf(Values(batch, m))
        IN /\ v[2] # 0
           /\ 0 <= v[1] /\ v[1] <= v[2]
           /\ hi # lo => v[1] * (hi - lo) = (batch[i][m] - lo) * v[2]
           /\ hi = lo => v[1] = 0

\* C19 witness: a scored batch in which one metric is equal everywhere and
\* another takes a value strictly between its minimum and its maximum.
C19_Witness ==
  /\ stage = "scored"
  /\ Cardinality(Values(batch, "avg_engagement")) = 1
  /\ \E i \in 1..Len(scored) :
       /\ 0 < scored[i].norm["mention_count"][1]
       /\ scored[i].norm["mention_count"][1]
            < scored[i].norm["mention_count"][2]

\* Was the form of mention k already a name in the pool when it was resolved.
ExactAt(k) ==
  \E i \in 1..(k - 1) :
    normalizeName(mentions[i].surface) = normalizeName(mentions[k].surface)

\* Did mention k create its Entity.
CreatedAt(k) == \A i \in 1..(k - 1) : mentions[i].entity # mentions[k].entity

\* C12: a mention whose best fuzzy match is below 0.70 joins no existing
\* Entity (a new one is created); one with similarity in [0.70, 0.90) joins
\* the matched Entity with resolution confidence equal to the similarity; an
\* exact normalized match joins the existing Entity with confidence 1.0.
C12_FuzzyThresholds ==
  \A k \in 1..Len(mentions) :
    LET m == mentions[k] IN
    /\ (~ExactAt(k) /\ m.similarity < 70) =>
         CreatedAt(k) /\ m.entity = Len(entities) - Cardinality(
           {j \in (k + 1)..Len(mentions) : CreatedAt(j)})
    /\ (~ExactAt(k) /\ k > 1 /\ m.similarity >= 70 /\ m.similarity < 90) =>
         ~CreatedAt(k) /\ m.resolution_confidence = m.similarity
    /\ ExactAt(k) =>
         /\ ~CreatedAt(k) /\ m.resolution_confidence = 100
         /\ \A i \in 1..(k - 1) :
              normalizeName(mentions[i].surface) = normalizeName(m.surface)
                => mentions[i].entity = m.entity

\* C12 witness: after a first mention, one Job resolved a mention below the
\* lower threshold into a new Entity, one between the thresholds into an
\* existing Entity and one by exact match.
C12_Witness ==
  /\ Len(mentions) = 4
  /\ mentions[2].similarity = 50 /\ ~ExactAt(2) /\ CreatedAt(2)
  /\ mentions[3].similarity = 80 /\ ~ExactAt(3) /\ ~CreatedAt(3)
  /\ ExactAt(4) /\ mentions[4].resolution_confidence = 100
  /\ Len(entities) = 2

\* The mentions of the two surface forms of the scenario, in either order.
ScenarioPairs ==
  {p \in (1..Len(mentions)) \X (1..Len(mentions)) :
     /\ p[1] < p[2]
     /\ {mentions[p[1]].surface, mentions[p[2]].surface} = {OpenAI, OpenAiInc}}

C18_ConfidenceIsProduct ==
  mentions # << >> =>
    LET m == mentions[Len(mentions)] IN
    /\ shown.confidence = shown.llm_confidence * m.resolution_confidence
    /\ 0 <= shown.confidence /\ shown.confidence <= 100 * 100
    /\ 0 <= shown.percent /\ shown.percent <= 100
    /\ ExactAt(Len(mentions)) =>
         /\ m.resolution_confidence = 100
         /\ shown.confidence = 100 * shown.llm_confidence
         /\ shown.percent = shown.llm_confidence

\* C18 witness: an imperfect LLM confidence on a fuzzy match, shown as their
\* product (0.8 * 0.7 = 0.56).
C18_Witness ==
  /\ Len(mentions) = 2
  /\ shown.llm_confidence = 80
  /\ mentions[2].resolution_confidence = 70
  /\ shown.confidence = 5600
  /\ shown.percent = 56

\* C16: in every subreddit row of the overview each target's share is its
\* count divided by the row's total, the shares of all targets sum to at most
\* 1, and with a total of 0 every share is 0; no share has denominator 0.
C16_ShareOfVoice ==
  \A sub \in DOMAIN overview :
    LET row == overview[sub] IN
    /\ row.total = Sum(row.counts, TargetSet)
    /\ \A t \in TargetSet :
         /\ row.share[t][2] # 0
         /\ row.share[t][1] * row.total = row.counts[t] * row.share[t][2]
         /\ row.total = 0 => row.share[t][1] = 0
         /\ row.total # 0 => row.share[t][2] = row.total
    /\ row.total # 0 =>
         Sum([t \in TargetSet |-> row.share[t][1]], TargetSet) <= row.total

\* C16 witness: an overview with one subreddit without target mentions and
\* one where two targets hold shares 2/3 and 1/3.
C16_Witness ==
  /\ overview # << >>
  /\ overview["golang"].total = 0
  /\ overview["rust"].total = 3
  /\ overview["rust"].share["acme"] = <<2, 3>>
  /\ overview["rust"].share["bolt"] = <<1, 3>>

\* The entries reporting the pair {a, b}, in either orientation.
EntriesFor(a, b) ==
  {k \in 1..Len(coMentions) :
     coMentions[k].pair = <<a, b>> \/ coMentions[k].pair = <<b, a>>}

\* count(a, b) as a reader of the report finds it.
CountFor(a, b) ==
  IF EntriesFor(a, b) = {} THEN 0
  ELSE coMentions[CHOOSE k \in EntriesFor(a, b) : TRUE].count

\* C17: for all targets a # b, count(a,b) = count(b,a), the report holds at
\* most one entry for {a,b}, and its count is the number of Sources that
\* mention both a and b.
C17_CoMentionsSymmetricOnce ==
  \A a, b \in TargetSet :
    a # b =>
      /\ Cardinality(EntriesFor(a, b)) <= 1
      /\ CountFor(a, b) = CountFor(b, a)
      /\ CountFor(a, b) = Cardinality(
           {src \in sourcesSeen : src.mentions[a] > 0 /\ src.mentions[b] > 0})

\* C17 witness: two Sources name both acme and bolt, one of them twice over,
\* and the pair is reported with count 2.
C17_Witness ==
  /\ Cardinality(sourcesSeen) = 2
  /\ \E src \in sourcesSeen : src.mentions["acme"] = 2
  /\ CountFor("bolt", "acme") = 2
  /\ CountFor("acme", "core") = 1

\* C20: whenever the hook is loading (start() was called), it eventually
\* reaches a state with isLoading = false and no polling interval running,
\* given that every request is answered and every Job becomes terminal.
C20_EventuallyIdle == isLoading ~> (~isLoading /\ timers = {})

\* C22: once a job_id is adopted, every poll outcome the hook applies (a
\* response or a failure) belongs to that job_id.
C22_OnlyCurrentJobApplied ==
  [][\A r \in BagToSet(pollResps) :
       ((PollResolved(r) \/ PollRejected(r)) /\ jobId # NoJob)
         => r.job_id = jobId]_vars

\* The hook as reset() leaves it.
HookCleared ==
  /\ jobId = NoJob /\ status = NULL /\ progress = NULL
  /\ error = NULL /\ result = NoJob /\ ~isLoading

\* C23: from a cleared hook every step other than a start() call leaves
\* jobId, status, progress, error and result null and isLoading false.
C23_ResetStaysCleared == [][(HookCleared /\ ~Submit) => HookCleared']_vars

\* C24: no polling interval runs while isLoading is false, at most one runs
\* otherwise, and every running interval is the one pollRef holds.
C24_AtMostOneInterval ==
  /\ ~isLoading => timers = {}
  /\ Cardinality(timers) <= 1
  /\ \A id \in timers : pollRef = id

\* JobStatus as the page renders it.
RunningShown == JobStatusShown /\ status \in Active
CompleteShown == JobStatusShown /\ status = "complete"
ErrorTextShown == JobStatusShown /\ status = "failed" /\ error \notin {NULL, ""}

\* C25: whenever the hook's error is non-null the page shows the error text
\* and the Retry action, and shows the analysis neither as running nor as
\* completed.
C25_ErrorShownWithRetry ==
  error # NULL =>
    /\ ErrorTextShown /\ RetryShown
    /\ ~RunningShown /\ ~CompleteShown

\* C28: a fetchAllData that failed leaves the five datasets as they were, one
\* that succeeded replaces all five; after either isLoadingData is false, and
\* the five datasets are always loaded together or not at all.
C28_FetchAllOrNothing ==
  [][/\ FetchAllRejected => datasets' = datasets
     /\ FetchAllResolved => datasets' = AllData
     /\ (FetchAllRejected \/ FetchAllResolved) => ~isLoadingData'
     /\ \A k1, k2 \in DOMAIN datasets' : datasets'[k1] = datasets'[k2]]_vars

\* C28 witness: the only Job is complete, its fetchAllData failed, and the
\* page is left without data and not loading.
C28_Witness ==
  /\ Len(jobs) = 1 /\ startReqs = EmptyBag
  /\ status = "complete" /\ error = NULL /\ ~isLoading
  /\ dataFetches = 0 /\ ~isLoadingData
  /\ datasets = NoData

\* C26: once the most recent fetch() call was answered the hook shows that
\* call's outcome (its entity, or its error with entity null), whatever
\* order the responses came in, and isLoading is true while that call is
\* awaiting its response.
C26_LatestFetchShown ==
  /\ detailLatest.answered =>
       /\ detailEntity = detailLatest.entity
       /\ detailError = detailLatest.error
  /\ detailLatest.pending => detailIsLoading

\* The two halves of C26 on their own.
C26_LatestOutcomeShown ==
  detailLatest.answered =>
    /\ detailEntity = detailLatest.entity
    /\ detailError = detailLatest.error

C26_LoadingWhilePending == detailLatest.pending => detailIsLoading

\* C27: from the state clear() leaves (the modal closed) every step other
\* than a fetch() call leaves entity and error null and isLoading false.
C27_ClearStaysClosed ==
  [][(~ModalOpen /\ ~(\E id \in EntityIds : fetch(id))) => ~ModalOpen']_vars

\* The edges of the data that have both endpoints among its nodes.
attached ==
  SelectSeq(data.edges,
    LAMBDA e : /\ \E i \in 1..Len(data.nodes) : data.nodes[i].id = e.source
               /\ \E i \in 1..Len(data.nodes) : data.nodes[i].id = e.target)

\* C21: every edge GraphView draws joins two drawn nodes, an edge with an
\* endpoint that is no node of the data is not drawn, and the positions
\* are the ones the layout gives without the edges that miss an endpoint.
C21_DanglingEdgesUnused ==
  /\ \A i \in drawnEdges :
       /\ \E k \in 1..Len(positionedNodes) :
            positionedNodes[k].id = data.edges[i].source
       /\ \E k \in 1..Len(positionedNodes) :
            positionedNodes[k].id = data.edges[i].target
  /\ \A i \in 1..Len(data.edges) :
       (\E end \in {data.edges[i].source, data.edges[i].target} :
          \A k \in 1..Len(data.nodes) : data.nodes[k].id # end)
         => i \notin drawnEdges
  /\ {positionedNodes[k].id : k \in 1..Len(positionedNodes)}
       = {data.nodes[k].id : k \in 1..Len(data.nodes)}
  /\ positionedNodes = layout(data.nodes, attached)

\* A graph with an edge between two nodes that moved them and an edge with
\* a missing endpoint, while a node is hovered.
C21_Witness ==
  /\ Len(data.nodes) = 3 /\ Len(data.edges) = 2
  /\ Len(attached) = 1
  /\ drawnEdges # {}
  /\ positionedNodes # layout(data.nodes, << >>)
  /\ hoveredNode # NoNode

\* C29: while a node is hovered, the drawn edges that are highlighted are
\* exactly the drawn edges whose source or target is that node.
C29_IncidentEdgesHighlighted ==
  hoveredNode # NoNode =>
    \A i \in drawnEdges :
      isHighlighted(i) <=> incident(data.edges[i], hoveredNode)

\* The message C30 names for an error body.
expectedMessage(r) ==
  IF r.body.json /\ r.body.object /\ truthy(r.body.detail)
    THEN String(r.body.detail)
  ELSE IF r.body.json /\ r.body.object /\ truthy(r.body.message)
    THEN String(r.body.message)
  ELSE ToString(r.status) \o " " \o r.statusText

\* C30: get and post resolve only for an OK response, and then with the
\* parsed body; for a response that is not OK they reject with an ApiError
\* that carries the status and whose message is body.detail, else
\* body.message, else "<status> <statusText>", whether or not the body is
\* JSON.
C30_ErrorsBecomeApiError ==
  settled # Pending =>
    /\ settled.kind = "resolved" =>
         ok(response.status) /\ response.body.json /\ settled.value = response.body
    /\ ~ok(response.status) =>
         /\ settled.kind = "rejected" /\ settled.name = "ApiError"
         /\ settled.status = response.status
         /\ settled.message = expectedMessage(response)

\* A 404 whose body is not JSON was rejected with the default message.
C30_Witness ==
  /\ response.status = 404 /\ response.statusText = "Error"
  /\ ~response.body.json
  /\ settled.name = "ApiError" /\ settled.message = "404 Error"

====
